---- MODULE Spec2Model ----
(***************************************************************************)
(* A model of iwallet/utils.go of go-iost: the signer-list check, the      *)
(* amount-limit parser, the multi-signature handler and the plaintext key  *)
(* store (SaveAccount / loadAccountByName).                                *)
(*                                                                         *)
(* Go strings are modelled as sequences of one-character strings, so that  *)
(* strings.Split and strconv.ParseFloat work on characters as they do in   *)
(* the program.                                                            *)
(***************************************************************************)
EXTENDS Integers, Sequences, FiniteSets, TLC

VARIABLES
    pc,          \* "ready" before the call of a one-call specification, "done" after
    signers,     \* checkSigners: the argument
    signersErr,  \* checkSigners: the returned error
    limitStr,    \* ParseAmountLimit: the argument
    limitRet,    \* ParseAmountLimit: the returned (result, err)
    t,           \* handleMultiSig: the TransactionRequest
    withSigns,   \* handleMultiSig: the signature files given
    signKeys,    \* handleMultiSig: the private key files given
    sigRet,      \* handleMultiSig: returned error, files read, signatures before the call
    fs,          \* the account directory ~/.iwallet
    proc,        \* the process: its umask (empty, which masks no bit of a mode)
                 \* and whether it bypasses file modes, as root does
    last         \* the last call on the account directory and what it returned

vars == <<pc, signers, signersErr, limitStr, limitRet, t, withSigns, signKeys,
          sigRet, fs, proc, last>>

-----------------------------------------------------------------------------
(* Bounds of the model. *)

MaxLen == 3        \* characters in one signer string
MaxSigners == 2    \* entries in a signer list
MaxPieces == 4     \* pieces an amount-limit string is concatenated from
MaxSources == 3    \* entries of withSigns and signKeys together
NumKeys == 2       \* key pairs per algorithm

-----------------------------------------------------------------------------
(* Generic helpers. *)

Min(S) == CHOOSE x \in S : \A y \in S : x <= y

SeqsUpTo(S, n) == UNION {[1..k -> S] : k \in 0..n}

RECURSIVE Concat(_)
Concat(ss) == IF ss = <<>> THEN <<>> ELSE Head(ss) \o Concat(Tail(ss))

\* A Go error value; nil is the record of kind "nil".
Err(kind, arg) == [kind |-> kind, arg |-> arg]
Nil == Err("nil", <<>>)

\* strings.Split(s, sep) for a one-character separator: the substrings
\* between the occurrences of sep, Count(s, sep) + 1 of them.
RECURSIVE Split(_, _)
Split(s, sep) ==
    IF \A i \in 1..Len(s) : s[i] # sep
    THEN <<s>>
    ELSE LET i == Min({j \in 1..Len(s) : s[j] = sep})
         IN  <<SubSeq(s, 1, i - 1)>> \o Split(SubSeq(s, i + 1, Len(s)), sep)

-----------------------------------------------------------------------------
(* checkSigners *)

checkSignersAtLeastTwo(list) ==
    LET bad == {i \in 1..Len(list) : ~(Len(Split(list[i], "@")) >= 2)}
    IN  IF bad = {} THEN Nil
        ELSE Err("InvalidSignerFormat", list[Min(bad)])

\* The loop returns at the first entry that does not split into two parts.
checkSigners(list) ==
    LET bad == {i \in 1..Len(list) : ~(Len(Split(list[i], "@")) = 2)}
    IN  IF bad = {} THEN Nil
        ELSE Err("InvalidSignerFormat", list[Min(bad)])

SignerChars == {"a", "@"}
SignerStrings == SeqsUpTo(SignerChars, MaxLen)
SignerLists == SeqsUpTo(SignerStrings, MaxSigners)

-----------------------------------------------------------------------------
(* ParseAmountLimit *)

Digits == {"0", "1", "2", "3", "4", "5", "6", "7", "8", "9"}

\* The characters of s from position i on that are digits, counted up to
\* the first one that is not.
RECURSIVE DigitRun(_, _)
DigitRun(s, i) ==
    IF i <= Len(s) /\ s[i] \in Digits THEN 1 + DigitRun(s, i + 1) ELSE 0

Lower(c) ==
    CASE c = "I" -> "i" [] c = "N" -> "n" [] c = "F" -> "f" [] c = "A" -> "a"
      [] c = "T" -> "t" [] c = "Y" -> "y" [] c = "E" -> "e"
      [] OTHER -> c

LowerStr(s) == [i \in 1..Len(s) |-> Lower(s[i])]

\* strconv's special(): "inf", "infinity" (optionally signed) and "nan",
\* matched ignoring case, taken only when they are the whole string.
IsSpecial(s) ==
    LET l == LowerStr(s)
        signed == Len(l) > 0 /\ l[1] \in {"+", "-"}
        body == IF signed THEN Tail(l) ELSE l
    IN  \/ body = <<"i", "n", "f">>
        \/ body = <<"i", "n", "f", "i", "n", "i", "t", "y">>
        \/ ~signed /\ body = <<"n", "a", "n">>

\* strconv's readFloat() for base 10: optional sign, digits with at most
\* one '.', at least one digit, then optionally e, an optional sign and at
\* least one digit; the whole string must be consumed.
IsDecimal(s) ==
    LET a == IF Len(s) > 0 /\ s[1] \in {"+", "-"} THEN 2 ELSE 1
        n1 == DigitRun(s, a)
        b == a + n1
        dot == b <= Len(s) /\ s[b] = "."
        n2 == IF dot THEN DigitRun(s, b + 1) ELSE 0
        c == IF dot THEN b + 1 + n2 ELSE b
        exp == c <= Len(s) /\ Lower(s[c]) = "e"
        d == IF exp /\ c + 1 <= Len(s) /\ s[c + 1] \in {"+", "-"} THEN c + 2 ELSE c + 1
        n3 == IF exp THEN DigitRun(s, d) ELSE 0
    IN  /\ n1 + n2 > 0
        /\ IF exp THEN n3 > 0 /\ d + n3 = Len(s) + 1 ELSE c = Len(s) + 1

\* strconv.ParseFloat(s, 64) returns a nil error.  (An out-of-range
\* exponent needs more digits than the strings of this model hold.)
ParseFloatOk(s) == IsSpecial(s) \/ IsDecimal(s)

Unlimited == <<"u", "n", "l", "i", "m", "i", "t", "e", "d">>

\* The result after the groups grams[1..n], or the error of the first
\* group that fails: a group fails when it does not split into two parts
\* on ':' or when its value is neither "unlimited" nor accepted by
\* ParseFloat.
RECURSIVE parseGroups(_, _)
parseGroups(grams, result) ==
    IF grams = <<>> THEN [isNil |-> FALSE, result |-> result, err |-> Nil]
    ELSE LET gram == Head(grams)
             limit == Split(gram, ":")
         IN  IF Len(limit) # 2
             THEN [isNil |-> TRUE, result |-> <<>>,
                   err |-> Err("InvalidLimitSyntax", gram)]
             ELSE IF limit[2] # Unlimited /\ ~ParseFloatOk(limit[2])
             THEN [isNil |-> TRUE, result |-> <<>>,
                   err |-> Err("InvalidLimitValue", limit[2])]
             ELSE parseGroups(Tail(grams),
                      Append(result, [Token |-> limit[1], Value |-> limit[2]]))

\* isNil tells the nil slice of the error returns from the empty list.
ParseAmountLimit(str) ==
    IF str = <<>> THEN [isNil |-> FALSE, result |-> <<>>, err |-> Nil]
    ELSE parseGroups(Split(str, "|"), <<>>)

LimitPieces ==
    {<<"|">>, <<":">>, <<"1">>, <<".">>, <<"e">>, <<"i", "n", "f">>, Unlimited}
LimitStrings == {Concat(ps) : ps \in SeqsUpTo(LimitPieces, MaxPieces)}

-----------------------------------------------------------------------------
(* Keys, and the sign/verify capability of the crypto packages. *)

ValidSignAlgos == <<"ed25519", "secp256k1">>
Algorithms == {ValidSignAlgos[i] : i \in 1..Len(ValidSignAlgos)}
KeyIds == 1..NumKeys

\* The private key bytes of the k-th key; the first one starts with a zero
\* byte.
SecBytes(k) == <<k - 1, 57 + k>>

\* The public key an algorithm derives from private key bytes.
PubOf(algo, sec) ==
    <<(sec[1] * 7 + sec[2] * 3 + (IF algo = "ed25519" THEN 0 ELSE 1)) % 256>>

KeyPair(algo, k) ==
    [Algorithm |-> algo, Pubkey |-> PubOf(algo, SecBytes(k)), Seckey |-> SecBytes(k)]
KeyPairs == {KeyPair(a, k) : a \in Algorithms, k \in KeyIds}

\* A signature is the pair of what was signed and the key that signed it;
\* it verifies under the public key of that key and under no other.
Sign(algo, msg, sec) == [msg |-> msg, key |-> sec]
Verify(algo, msg, pub, sig) == sig.msg = msg /\ PubOf(algo, sig.key) = pub

-----------------------------------------------------------------------------
(* handleMultiSig *)

SignAlgo == "ed25519"   \* the --sign_algo flag at its default
Payloads == {"tx1", "tx2"}

\* The files signKeys can name: file 0 cannot be loaded as a key pair, file
\* k > 0 holds the private key of the k-th key.
KeySources == 0..NumKeys

\* sdk.LoadKeyPair(f, signAlgo)
LoadKeyPair(f, algo) ==
    IF f = 0 THEN [kp |-> KeyPair(algo, 1), err |-> Err("LoadError", f)]
    ELSE [kp |-> KeyPair(algo, f), err |-> Nil]

\* What a signature file can hold: a Signature record of any public key
\* and any signature bytes, matching or not, or text that is no record.
SigRecords ==
    [Algorithm : {SignAlgo},
     PublicKey : {PubOf(SignAlgo, SecBytes(k)) : k \in KeyIds},
     Signature : [msg : Payloads, key : {SecBytes(k) : k \in KeyIds}]]
Malformed == [wellFormed |-> FALSE, record |-> CHOOSE r \in SigRecords : TRUE]
SigSources == {Malformed} \cup [wellFormed : {TRUE}, record : SigRecords]

\* sdk.LoadProtoStructFromJSONFile(f, sig)
LoadProtoStructFromJSONFile(f) ==
    [sig |-> f.record, err |-> IF f.wellFormed THEN Nil ELSE Err("JSONError", f)]

\* sdk.GetSignatureOfTx(t, kp): the signature of kp over the bytes of the
\* transaction that exclude its signatures.
GetSignatureOfTx(tx, kp) ==
    [Algorithm |-> kp.Algorithm, PublicKey |-> kp.Pubkey,
     Signature |-> Sign(kp.Algorithm, tx.payload, kp.Seckey)]

\* sdk.VerifySigForTx(t, sig)
VerifySigForTx(tx, sig) ==
    Verify(sig.Algorithm, tx.payload, sig.PublicKey, sig.Signature)

\* The value handleMultiSig leaves: the signatures of t, the error, and the
\* files it read, in order.
MultiSigRet(sigs, err, read) == [Signatures |-> sigs, err |-> err, read |-> read]

\* signLoop assigning to t.Signatures as it goes.
RECURSIVE signLoopCommitsPartial(_, _, _, _)
signLoopCommitsPartial(tx, keys, sigs, read) ==
    IF keys = <<>> THEN MultiSigRet(sigs, Nil, read)
    ELSE LET f == Head(keys)
             l == LoadKeyPair(f, SignAlgo)
         IN  IF l.err.kind # "nil"
             THEN MultiSigRet(sigs, Err("KeyLoadError", f), Append(read, f))
             ELSE signLoopCommitsPartial(tx, Tail(keys),
                           Append(sigs, GetSignatureOfTx(tx, l.kp)), Append(read, f))

\* The loop over signKeys, then the assignment t.Signatures = sigs.
RECURSIVE signLoop(_, _, _, _)
signLoop(tx, keys, sigs, read) ==
    IF keys = <<>> THEN MultiSigRet(sigs, Nil, read)
    ELSE LET f == Head(keys)
             l == LoadKeyPair(f, SignAlgo)
         IN  IF l.err.kind # "nil"
             THEN MultiSigRet(tx.Signatures, Err("KeyLoadError", f), Append(read, f))
             ELSE signLoop(tx, Tail(keys),
                           Append(sigs, GetSignatureOfTx(tx, l.kp)), Append(read, f))

\* attachLoop without the call of VerifySigForTx.
RECURSIVE attachLoopNoVerify(_, _, _, _)
attachLoopNoVerify(tx, files, sigs, read) ==
    IF files = <<>> THEN MultiSigRet(sigs, Nil, read)
    ELSE LET f == Head(files)
             l == LoadProtoStructFromJSONFile(f)
         IN  IF l.err.kind # "nil"
             THEN MultiSigRet(tx.Signatures, Err("InvalidSignatureRecord", f),
                              Append(read, f))
             ELSE attachLoopNoVerify(tx, Tail(files), Append(sigs, l.sig),
                                     Append(read, f))

\* The loop over withSigns, then the assignment t.Signatures = sigs.
RECURSIVE attachLoop(_, _, _, _)
attachLoop(tx, files, sigs, read) ==
    IF files = <<>> THEN MultiSigRet(sigs, Nil, read)
    ELSE LET f == Head(files)
             l == LoadProtoStructFromJSONFile(f)
         IN  IF l.err.kind # "nil"
             THEN MultiSigRet(tx.Signatures, Err("InvalidSignatureRecord", f),
                              Append(read, f))
             ELSE IF ~VerifySigForTx(tx, l.sig)
             THEN MultiSigRet(tx.Signatures, Err("SignatureVerificationFailed", f),
                              Append(read, f))
             ELSE attachLoop(tx, Tail(files), Append(sigs, l.sig), Append(read, f))

\* handleMultiSig without the check that one of the lists is empty.
handleMultiSigNoExclusion(tx, ws, ks) ==
    IF Len(ks) > 0 THEN signLoop(tx, ks, <<>>, <<>>)
    ELSE IF Len(ws) > 0 THEN attachLoop(tx, ws, <<>>, <<>>)
    ELSE MultiSigRet(<<>>, Nil, <<>>)

\* handleMultiSig assigning to t.Signatures only inside the two modes.
handleMultiSigAssignsInModes(tx, ws, ks) ==
    IF Len(ws) # 0 /\ Len(ks) # 0
    THEN MultiSigRet(tx.Signatures, Err("ConflictingSignatureModes", <<>>), <<>>)
    ELSE IF Len(ks) > 0 THEN signLoop(tx, ks, <<>>, <<>>)
    ELSE IF Len(ws) > 0 THEN attachLoop(tx, ws, <<>>, <<>>)
    ELSE MultiSigRet(tx.Signatures, Nil, <<>>)

handleMultiSig(tx, ws, ks) ==
    IF Len(ws) # 0 /\ Len(ks) # 0
    THEN MultiSigRet(tx.Signatures, Err("ConflictingSignatureModes", <<>>), <<>>)
    ELSE IF Len(ks) > 0 THEN signLoop(tx, ks, <<>>, <<>>)
    ELSE IF Len(ws) > 0 THEN attachLoop(tx, ws, <<>>, <<>>)
    ELSE MultiSigRet(<<>>, Nil, <<>>)

\* The signature sets a transaction can hold before the call.
PriorSignatures ==
    {<<>>, <<GetSignatureOfTx([payload |-> "tx2"], KeyPair(SignAlgo, 1))>>}

-----------------------------------------------------------------------------
(* common.Base58Encode and its inverse, on byte sequences. *)

Base58Alphabet ==
    <<"1", "2", "3", "4", "5", "6", "7", "8", "9",
      "A", "B", "C", "D", "E", "F", "G", "H", "J", "K", "L", "M", "N", "P", "Q",
      "R", "S", "T", "U", "V", "W", "X", "Y", "Z",
      "a", "b", "c", "d", "e", "f", "g", "h", "i", "j", "k", "m", "n", "o", "p",
      "q", "r", "s", "t", "u", "v", "w", "x", "y", "z">>

RECURSIVE BytesToNat(_)
BytesToNat(b) ==
    IF b = <<>> THEN 0 ELSE BytesToNat(SubSeq(b, 1, Len(b) - 1)) * 256 + b[Len(b)]

RECURSIVE NatToDigits(_, _)
NatToDigits(n, base) ==
    IF n = 0 THEN <<>> ELSE Append(NatToDigits(n \div base, base), n % base)

RECURSIVE LeadingCount(_, _)
LeadingCount(s, x) ==
    IF s # <<>> /\ Head(s) = x THEN 1 + LeadingCount(Tail(s), x) ELSE 0

\* One '1' for every leading zero byte, then the digits of the number the
\* bytes spell, most significant first.
Base58Encode(b) ==
    LET digits == NatToDigits(BytesToNat(b), 58)
    IN  [i \in 1..LeadingCount(b, 0) |-> "1"]
        \o [i \in 1..Len(digits) |-> Base58Alphabet[digits[i] + 1]]

Base58Index(c) == (CHOOSE i \in 1..58 : Base58Alphabet[i] = c) - 1

RECURSIVE DigitsToNat(_)
DigitsToNat(s) ==
    IF s = <<>> THEN 0
    ELSE DigitsToNat(SubSeq(s, 1, Len(s) - 1)) * 58 + Base58Index(s[Len(s)])

Base58Decode(s) ==
    [i \in 1..LeadingCount(s, "1") |-> 0] \o NatToDigits(DigitsToNat(s), 256)

-----------------------------------------------------------------------------
(* The account directory and the system calls on it. *)

Names == {"alice"}
Suffixes == {".json"}
    \cup {"_" \o a : a \in Algorithms} \cup {"_" \o a \o ".pub" : a \in Algorithms}
Paths == {n \o x : n \in Names, x \in Suffixes}

\* Permission bits, as the set of those that are set.
OwnerBits == {"ur", "uw", "ux"}
Mode0700 == {"ur", "uw", "ux"}
Mode0400 == {"ur"}
Mode0666 == {"ur", "uw", "gr", "gw", "or", "ow"}
Mode0755 == {"ur", "uw", "ux", "gr", "gx", "or", "ox"}

NoFile == [exists |-> FALSE, mode |-> {}, data |-> <<>>, bySave |-> FALSE]
NoDir == [exists |-> FALSE, mode |-> {}, bySave |-> FALSE]

SysRet(f, err) == [fs |-> f, err |-> err]

\* os.MkdirAll(dir, perm): nothing to do when the directory exists, else
\* it is created with perm less the umask.
MkdirAll(f, p, perm, fault) ==
    IF fault THEN SysRet(f, Err("EIO", "mkdir"))
    ELSE IF f.dir.exists THEN SysRet(f, Nil)
    ELSE SysRet([f EXCEPT !.dir = [exists |-> TRUE, mode |-> perm \ p.umask,
                                   bySave |-> TRUE]], Nil)

\* os.OpenFile(path, O_RDWR|O_CREATE|O_TRUNC, perm) by the owner of the
\* directory: an existing file must be readable and writable by the
\* process and is emptied, its mode kept; a new file gets perm less the
\* umask, whatever access the descriptor has.
OpenFile(f, p, path, perm, fault) ==
    LET file == f.files[path]
    IN  IF fault THEN SysRet(f, Err("EIO", path))
        ELSE IF ~f.dir.exists THEN SysRet(f, Err("ENOENT", path))
        ELSE IF file.exists
        THEN IF p.privileged \/ {"ur", "uw"} \subseteq file.mode
             THEN SysRet([f EXCEPT !.files[path].data = <<>>], Nil)
             ELSE SysRet(f, Err("EACCES", path))
        ELSE IF p.privileged \/ {"uw", "ux"} \subseteq f.dir.mode
        THEN SysRet([f EXCEPT !.files[path] =
                        [exists |-> TRUE, mode |-> perm \ p.umask, data |-> <<>>,
                         bySave |-> TRUE]], Nil)
        ELSE SysRet(f, Err("EACCES", path))

\* os.Create(path)
Create(f, p, path, fault) == OpenFile(f, p, path, Mode0666, fault)

\* File.WriteString(s) on a descriptor just opened; a failed write leaves
\* the file as the open left it.
WriteString(f, path, str, fault) ==
    IF fault THEN SysRet(f, Err("EIO", path))
    ELSE SysRet([f EXCEPT !.files[path].data = str], Nil)

\* os.Stat(path) returns a nil error.
Stat(f, path) == f.dir.exists /\ f.files[path].exists

-----------------------------------------------------------------------------
(* SaveAccount *)

\* The I/O errors the system can raise in SaveAccount, by the call that
\* meets them; "none" when it raises none.
Faults == {"none", "mkdir", "create_pub", "write_pub", "open_sec", "write_sec"}

Call(op, path, perm, r) ==
    [op |-> op, path |-> path, perm |-> perm, ok |-> r.err.kind = "nil"]

SaveRet(f, err, log) == [fs |-> f, err |-> err, log |-> log]

AlgoSuffix(algo) ==
    IF algo = "ed25519" THEN "_ed25519"
    ELSE IF algo = "secp256k1" THEN "_secp256k1" ELSE ""

SecFilePermOfCreate == Mode0666

\* The mode the private key file is opened with.
SecFilePerm == Mode0400

\* SaveAccount writing each half of the key pair to the file of the other.
SaveAccountSwapsHalves(f0, p, name, kp, fault) ==
    LET fileName == name \o AlgoSuffix(kp.Algorithm)
        pubName == fileName \o ".pub"
        s1 == MkdirAll(f0, p, Mode0700, fault = "mkdir")
        s2 == Create(s1.fs, p, pubName, fault = "create_pub")
        s3 == WriteString(s2.fs, pubName, Base58Encode(kp.Seckey), fault = "write_pub")
        s4 == OpenFile(s3.fs, p, fileName, SecFilePerm, fault = "open_sec")
        s5 == WriteString(s4.fs, fileName, Base58Encode(kp.Pubkey), fault = "write_sec")
        l1 == <<Call("mkdir", "", Mode0700, s1)>>
        l2 == Append(l1, Call("open", pubName, Mode0666, s2))
        l3 == Append(l2, Call("write", pubName, {}, s3))
        l4 == Append(l3, Call("open", fileName, SecFilePerm, s4))
        l5 == Append(l4, Call("write", fileName, {}, s5))
    IN  IF s1.err.kind # "nil" THEN SaveRet(s1.fs, s1.err, l1)
        ELSE IF s2.err.kind # "nil" THEN SaveRet(s2.fs, Err("IOError", pubName), l2)
        ELSE IF s3.err.kind # "nil" THEN SaveRet(s3.fs, s3.err, l3)
        ELSE IF s4.err.kind # "nil" THEN SaveRet(s4.fs, Err("IOError", fileName), l4)
        ELSE IF s5.err.kind # "nil" THEN SaveRet(s5.fs, s5.err, l5)
        ELSE SaveRet(s5.fs, Nil, l5)

\* The file system SaveAccount leaves, the error it returns and the system
\* calls it made, in order.
SaveAccount(f0, p, name, kp, fault) ==
    LET fileName == name \o AlgoSuffix(kp.Algorithm)
        pubName == fileName \o ".pub"
        s1 == MkdirAll(f0, p, Mode0700, fault = "mkdir")
        s2 == Create(s1.fs, p, pubName, fault = "create_pub")
        s3 == WriteString(s2.fs, pubName, Base58Encode(kp.Pubkey), fault = "write_pub")
        s4 == OpenFile(s3.fs, p, fileName, SecFilePerm, fault = "open_sec")
        s5 == WriteString(s4.fs, fileName, Base58Encode(kp.Seckey), fault = "write_sec")
        l1 == <<Call("mkdir", "", Mode0700, s1)>>
        l2 == Append(l1, Call("open", pubName, Mode0666, s2))
        l3 == Append(l2, Call("write", pubName, {}, s3))
        l4 == Append(l3, Call("open", fileName, SecFilePerm, s4))
        l5 == Append(l4, Call("write", fileName, {}, s5))
    IN  IF s1.err.kind # "nil" THEN SaveRet(s1.fs, s1.err, l1)
        ELSE IF s2.err.kind # "nil" THEN SaveRet(s2.fs, Err("IOError", pubName), l2)
        ELSE IF s3.err.kind # "nil" THEN SaveRet(s3.fs, s3.err, l3)
        ELSE IF s4.err.kind # "nil" THEN SaveRet(s4.fs, Err("IOError", fileName), l4)
        ELSE IF s5.err.kind # "nil" THEN SaveRet(s5.fs, s5.err, l5)
        ELSE SaveRet(s5.fs, Nil, l5)

-----------------------------------------------------------------------------
(* loadAccountByName *)

NoKeyPair == [Algorithm |-> "", Pubkey |-> <<>>, Seckey |-> <<>>]

\* The key pair a consolidated keystore holds: one that no SaveAccount of
\* the model writes.
KeystoreKeyPair == KeyPair("ed25519", NumKeys + 1)

LoadRet(err, loader, file, kp) ==
    [err |-> err, loader |-> loader, file |-> file, kp |-> kp]

loadAccountFromKeyStore(f, fileName) ==
    LoadRet(Nil, "keystore", fileName, KeystoreKeyPair)

\* The plaintext file holds the base58 text of the private key of the
\* algorithm its name ends in; the public key is derived from it.
loadAccountFromKeyPair(f, fileName) ==
    LET algo == CHOOSE a \in Algorithms : \E n \in Names : fileName = n \o "_" \o a
        sec == Base58Decode(f.files[fileName].data)
    IN  IF Len(sec) # Len(SecBytes(1))
        THEN LoadRet(Err("InvalidKey", fileName), "keypair", fileName, NoKeyPair)
        ELSE LoadRet(Nil, "keypair", fileName,
                     [Algorithm |-> algo, Pubkey |-> PubOf(algo, sec), Seckey |-> sec])

loadAccountByNameKeyFilesFirst(f, name) ==
    LET found == {i \in 1..Len(ValidSignAlgos) :
                     Stat(f, name \o "_" \o ValidSignAlgos[i])}
    IN  IF found # {}
        THEN loadAccountFromKeyPair(f, name \o "_" \o ValidSignAlgos[Min(found)])
        ELSE IF Stat(f, name \o ".json")
        THEN loadAccountFromKeyStore(f, name \o ".json")
        ELSE LoadRet(Err("AccountNotFound", name), "none", "", NoKeyPair)

\* The consolidated file if it exists, else the plaintext file of the
\* first algorithm of ValidSignAlgos that has one, else "account not
\* exist".
loadAccountByName(f, name) ==
    LET found == {i \in 1..Len(ValidSignAlgos) :
                     Stat(f, name \o "_" \o ValidSignAlgos[i])}
    IN  IF Stat(f, name \o ".json")
        THEN loadAccountFromKeyStore(f, name \o ".json")
        ELSE IF found # {}
        THEN loadAccountFromKeyPair(f, name \o "_" \o ValidSignAlgos[Min(found)])
        ELSE LoadRet(Err("AccountNotFound", name), "none", "", NoKeyPair)

-----------------------------------------------------------------------------
(* States and actions. *)

NoMultiSigRet == [err |-> Nil, read |-> <<>>, before |-> <<>>]
NoLimitRet == [isNil |-> FALSE, result |-> <<>>, err |-> Nil]
NoTx == [payload |-> "tx1", Signatures |-> <<>>]
EmptyFs == [dir |-> NoDir, files |-> [path \in Paths |-> NoFile]]
NoProc == [umask |-> {}, privileged |-> FALSE]
NoLoad == LoadRet(Nil, "none", "", NoKeyPair)
NoCall == [op |-> "none", name |-> "", kp |-> NoKeyPair, err |-> Nil, log |-> <<>>,
           load |-> NoLoad]

SignersIdle == signers = <<>> /\ signersErr = Nil
LimitIdle == limitStr = <<>> /\ limitRet = NoLimitRet
SigIdle == t = NoTx /\ withSigns = <<>> /\ signKeys = <<>> /\ sigRet = NoMultiSigRet
StoreIdle == fs = EmptyFs /\ proc = NoProc /\ last = NoCall

signersVars == <<signers, signersErr>>
limitVars == <<limitStr, limitRet>>
sigVars == <<t, withSigns, signKeys, sigRet>>
storeVars == <<fs, proc, last>>

\* checkSigners(signers)
InitSigners ==
    /\ pc = "checkSigners"
    /\ signers \in SignerLists
    /\ signersErr = Nil
    /\ LimitIdle /\ SigIdle /\ StoreIdle

CheckSigners ==
    /\ pc = "checkSigners"
    /\ signersErr' = checkSigners(signers)
    /\ pc' = "done"
    /\ UNCHANGED <<signers, limitVars, sigVars, storeVars>>

\* ParseAmountLimit(limitStr)
InitLimit ==
    /\ pc = "ParseAmountLimit"
    /\ limitStr \in LimitStrings
    /\ limitRet = NoLimitRet
    /\ SignersIdle /\ SigIdle /\ StoreIdle

ParseLimit ==
    /\ pc = "ParseAmountLimit"
    /\ limitRet' = ParseAmountLimit(limitStr)
    /\ pc' = "done"
    /\ UNCHANGED <<limitStr, signersVars, sigVars, storeVars>>

\* handleMultiSig(t, withSigns, signKeys)
InitSig ==
    /\ pc = "handleMultiSig"
    /\ t \in [payload : {"tx1"}, Signatures : PriorSignatures]
    /\ withSigns \in SeqsUpTo(SigSources, MaxSources)
    /\ signKeys \in SeqsUpTo(KeySources, MaxSources - Len(withSigns))
    /\ sigRet = NoMultiSigRet
    /\ SignersIdle /\ LimitIdle /\ StoreIdle

HandleMultiSig ==
    /\ pc = "handleMultiSig"
    /\ LET r == handleMultiSig(t, withSigns, signKeys)
       IN  /\ t' = [t EXCEPT !.Signatures = r.Signatures]
           /\ sigRet' = [err |-> r.err, read |-> r.read, before |-> t.Signatures]
    /\ pc' = "done"
    /\ UNCHANGED <<withSigns, signKeys, signersVars, limitVars, storeVars>>

\* The account directory before the first call: absent, or present with
\* the consolidated keystores of any of the accounts in it.
KeystoreFile ==
    [exists |-> TRUE, mode |-> {"ur", "uw"}, data |-> <<"{", "}">>, bySave |-> FALSE]

InitStore ==
    /\ pc = "store"
    /\ \/ fs = EmptyFs
       \/ \E js \in SUBSET Names :
             fs = [dir |-> [exists |-> TRUE, mode |-> Mode0755, bySave |-> FALSE],
                   files |-> [path \in Paths |->
                                IF \E n \in js : path = n \o ".json"
                                THEN KeystoreFile ELSE NoFile]]
    /\ proc \in [umask : {{}}, privileged : BOOLEAN]
    /\ last = NoCall
    /\ SignersIdle /\ LimitIdle /\ SigIdle

Save(faults) ==
    /\ pc = "store"
    /\ \E name \in Names, kp \in KeyPairs, fault \in faults :
          LET r == SaveAccount(fs, proc, name, kp, fault)
          IN  /\ fs' = r.fs
              /\ last' = [op |-> "save", name |-> name, kp |-> kp, err |-> r.err,
                          log |-> r.log, load |-> NoLoad]
    /\ UNCHANGED <<pc, proc, signersVars, limitVars, sigVars>>

SaveAnyFault == Save(Faults)
SaveNoFault == Save({"none"})

Load ==
    /\ pc = "store"
    /\ \E name \in Names :
          LET r == loadAccountByName(fs, name)
          IN  last' = [op |-> "load", name |-> name, kp |-> NoKeyPair, err |-> r.err,
                      log |-> <<>>, load |-> r]
    /\ UNCHANGED <<pc, fs, proc, signersVars, limitVars, sigVars>>

SpecSigners == InitSigners /\ [][CheckSigners]_vars
SpecLimit == InitLimit /\ [][ParseLimit]_vars
SpecSig == InitSig /\ [][HandleMultiSig]_vars
SpecStore == InitStore /\ [][SaveAnyFault \/ Load]_vars
SpecStoreNoFault == InitStore /\ [][SaveNoFault \/ Load]_vars

Init == InitSigners \/ InitLimit \/ InitSig \/ InitStore
Next == CheckSigners \/ ParseLimit \/ HandleMultiSig \/ SaveAnyFault \/ Load
Spec == Init /\ [][Next]_vars

-----------------------------------------------------------------------------
(* Claims about handleMultiSig, under SpecSig. *)

\* A signature file holds a record that verifies against the transaction.
Attachable(tx, f) ==
    /\ f.wellFormed
    /\ Verify(f.record.Algorithm, tx.payload, f.record.PublicKey, f.record.Signature)

\* The signature the k-th key gives over the transaction.
SignatureBy(tx, k) ==
    [Algorithm |-> SignAlgo, PublicKey |-> PubOf(SignAlgo, SecBytes(k)),
     Signature |-> [msg |-> tx.payload, key |-> SecBytes(k)]]

\* C1: with both signKeys and withSigns non-empty the call returns the
\* conflicting-modes error, reads no key file and no signature file, and
\* leaves the signatures of the transaction as they were.
C1_ConflictingModesRejected ==
    (pc = "done" /\ Len(withSigns) # 0 /\ Len(signKeys) # 0)
        => /\ sigRet.err.kind = "ConflictingSignatureModes"
           /\ sigRet.read = <<>>
           /\ t.Signatures = sigRet.before

C1_Witness ==
    /\ pc = "done" /\ Len(withSigns) # 0 /\ Len(signKeys) # 0
    /\ sigRet.before # <<>>
    /\ \A i \in 1..Len(signKeys) : signKeys[i] # 0
    /\ \A i \in 1..Len(withSigns) : Attachable(t, withSigns[i])

\* C2: in signing mode, when the key file at some position cannot be
\* loaded, the call returns the key-load error naming the first such
\* file and the signatures of the transaction are those from before the
\* call: the ones made for the earlier files are dropped.
C2_KeyLoadFailureCommitsNothing ==
    (pc = "done" /\ withSigns = <<>> /\ \E i \in 1..Len(signKeys) : signKeys[i] = 0)
        => LET i == Min({j \in 1..Len(signKeys) : signKeys[j] = 0})
           IN  /\ sigRet.err.kind = "KeyLoadError"
               /\ sigRet.err.arg = signKeys[i]
               /\ sigRet.read = SubSeq(signKeys, 1, i)
               /\ t.Signatures = sigRet.before

C2_Witness ==
    /\ pc = "done" /\ withSigns = <<>>
    /\ Len(signKeys) >= 2 /\ signKeys[1] # 0 /\ signKeys[2] = 0
    /\ sigRet.err.kind = "KeyLoadError"
    /\ sigRet.before # <<>>

\* C3: in attach mode the signatures of the transaction are written only
\* when every file holds a record that verifies against the transaction,
\* and are then those records; otherwise the call returns the error of
\* the first file that is malformed or fails verification, naming it,
\* and the signatures are those from before the call.
C3_AttachOnlyVerified ==
    (pc = "done" /\ signKeys = <<>> /\ withSigns # <<>>)
        => LET bad == {j \in 1..Len(withSigns) : ~Attachable(t, withSigns[j])}
           IN  IF bad = {}
               THEN /\ sigRet.err.kind = "nil"
                    /\ t.Signatures = [j \in 1..Len(withSigns) |-> withSigns[j].record]
               ELSE /\ sigRet.err.kind =
                          IF withSigns[Min(bad)].wellFormed
                          THEN "SignatureVerificationFailed"
                          ELSE "InvalidSignatureRecord"
                    /\ sigRet.err.arg = withSigns[Min(bad)]
                    /\ t.Signatures = sigRet.before

\* A file whose record carries the public key of one key and the
\* signature of another, after a file that verifies.
C3_Witness ==
    /\ pc = "done" /\ signKeys = <<>> /\ Len(withSigns) >= 2
    /\ Attachable(t, withSigns[1])
    /\ withSigns[2].wellFormed
    /\ withSigns[2].record.Signature.msg = t.payload
    /\ withSigns[2].record.PublicKey # PubOf(SignAlgo, withSigns[2].record.Signature.key)
    /\ sigRet.err.kind = "SignatureVerificationFailed"
    /\ sigRet.before # <<>>

\* C4: a call that succeeds leaves one signature for each source of the
\* mode in use, in the order of the sources, a source given twice giving
\* two entries; with both lists empty it succeeds and leaves no signature.
C4_OneSignaturePerSourceInOrder ==
    /\ (pc = "done" /\ sigRet.err.kind = "nil")
          => /\ signKeys # <<>> =>
                  t.Signatures =
                      [j \in 1..Len(signKeys) |-> SignatureBy(t, signKeys[j])]
             /\ withSigns # <<>> =>
                  t.Signatures = [j \in 1..Len(withSigns) |-> withSigns[j].record]
    /\ (pc = "done" /\ signKeys = <<>> /\ withSigns = <<>>)
          => sigRet.err.kind = "nil" /\ t.Signatures = <<>>

C4_Witness ==
    /\ pc = "done" /\ sigRet.err.kind = "nil"
    /\ Len(signKeys) >= 2 /\ signKeys[1] = signKeys[2]
    /\ Len(t.Signatures) = Len(signKeys)
    /\ t.Signatures[1] = t.Signatures[2]
    /\ sigRet.before # <<>>

-----------------------------------------------------------------------------
(* Claims about checkSigners, under SpecSigners. *)

AtCount(str) == Cardinality({i \in 1..Len(str) : str[i] = "@"})

\* C9: checkSigners returns nil exactly when every entry holds one '@',
\* and else the invalid-signer error naming the first entry that holds
\* none or several; entries with an empty account or permission, and the
\* empty list, pass.
C9_ExactlyOneAt ==
    pc = "done"
        => LET bad == {i \in 1..Len(signers) : AtCount(signers[i]) # 1}
           IN  IF bad = {} THEN signersErr.kind = "nil"
               ELSE /\ signersErr.kind = "InvalidSignerFormat"
                    /\ signersErr.arg = signers[Min(bad)]

C9_Witness ==
    /\ pc = "done" /\ signersErr.kind = "nil"
    /\ Len(signers) = 2 /\ signers[1] = <<"@">> /\ signers[2] = <<"a", "@">>

-----------------------------------------------------------------------------
(* Claims about ParseAmountLimit, under SpecLimit. *)

ColonCount(str) == Cardinality({i \in 1..Len(str) : str[i] = ":"})
ValueOf(gram) == Split(gram, ":")[2]
TokenOf(gram) == Split(gram, ":")[1]

\* A value the grammar of the specification allows: the literal
\* "unlimited" or a finite decimal number.
FiniteDecimalOrUnlimited(v) == v = Unlimited \/ IsDecimal(v)

GroupFails(gram) ==
    ColonCount(gram) # 1 \/ ~FiniteDecimalOrUnlimited(ValueOf(gram))

\* C8: the empty string gives the empty list; any other string is split
\* on '|' and parses exactly when every group has two ':'-separated
\* parts, the second "unlimited" or a finite decimal number; the first
\* group that fails gives the syntax error when it has not two parts and
\* the value error otherwise, with no list returned; a parse gives one
\* entry for each group, in order, with the value as written.
C8_GrammarOfSpec ==
    pc = "done"
        => IF limitStr = <<>>
           THEN limitRet.err.kind = "nil" /\ ~limitRet.isNil /\ limitRet.result = <<>>
           ELSE LET grams == Split(limitStr, "|")
                    bad == {i \in 1..Len(grams) : GroupFails(grams[i])}
                IN  IF bad = {}
                    THEN /\ limitRet.err.kind = "nil"
                         /\ limitRet.result =
                                [i \in 1..Len(grams) |->
                                    [Token |-> TokenOf(grams[i]),
                                     Value |-> ValueOf(grams[i])]]
                    ELSE /\ limitRet.isNil
                         /\ limitRet.err.kind =
                                IF ColonCount(grams[Min(bad)]) # 1
                                THEN "InvalidLimitSyntax" ELSE "InvalidLimitValue"

-----------------------------------------------------------------------------
(* Claims about the account directory, under SpecStore. *)

Exists(path) == fs.files[path].exists
JsonFile(n) == n \o ".json"
KeyFile(n, a) == n \o "_" \o a
PubFile(n, a) == n \o "_" \o a \o ".pub"
KeyFiles == {KeyFile(n, a) : n \in Names, a \in {"ed25519", "secp256k1"}}

\* C5: loadAccountByName takes <name>.json when it exists, whatever key
\* files there are; else <name>_ed25519 when it exists; else
\* <name>_secp256k1 when it exists; and returns the account-not-found
\* error exactly when none of the three exists.
C5_ResolutionOrder ==
    last.op = "load"
        => LET n == last.name
               r == last.load
           IN  IF Exists(JsonFile(n))
               THEN /\ r.loader = "keystore" /\ r.file = JsonFile(n)
                    /\ r.err.kind # "AccountNotFound"
               ELSE IF Exists(KeyFile(n, "ed25519"))
               THEN /\ r.loader = "keypair" /\ r.file = KeyFile(n, "ed25519")
                    /\ r.err.kind # "AccountNotFound"
               ELSE IF Exists(KeyFile(n, "secp256k1"))
               THEN /\ r.loader = "keypair" /\ r.file = KeyFile(n, "secp256k1")
                    /\ r.err.kind # "AccountNotFound"
               ELSE r.loader = "none" /\ r.err.kind = "AccountNotFound"

C5_Witness ==
    /\ last.op = "load"
    /\ ~Exists(JsonFile(last.name))
    /\ Exists(KeyFile(last.name, "ed25519")) /\ Exists(KeyFile(last.name, "secp256k1"))
    /\ last.load.file = KeyFile(last.name, "ed25519")
    /\ last.load.err.kind = "nil"

\* C6, as stated: after a SaveAccount(name, kp) that returned nil,
\* loadAccountByName(name) gives a key pair with the algorithm, public key
\* and private key of kp, whatever the directory held before.
C6_SaveThenLoadAnyDirectory ==
    (last.op = "save" /\ last.err.kind = "nil")
        => LET r == loadAccountByName(fs, last.name)
           IN  r.err.kind = "nil" /\ r.kp = last.kp

\* C6, amended: after a SaveAccount(name, kp) that returned nil, when
\* there is no <name>.json and no key file of an algorithm that comes
\* before kp's in ValidSignAlgos, loadAccountByName(name) reads the file
\* the save wrote and gives the algorithm, public key and private key of
\* kp.
C6_SaveThenLoadWhenFirstInOrder ==
    (/\ last.op = "save" /\ last.err.kind = "nil"
     /\ ~Exists(JsonFile(last.name))
     /\ last.kp.Algorithm = "secp256k1" => ~Exists(KeyFile(last.name, "ed25519")))
        => LET r == loadAccountByName(fs, last.name)
           IN  /\ r.err.kind = "nil"
               /\ r.loader = "keypair"
               /\ r.file = KeyFile(last.name, last.kp.Algorithm)
               /\ r.kp = last.kp

C6_Witness ==
    /\ last.op = "save" /\ last.err.kind = "nil"
    /\ ~Exists(JsonFile(last.name))
    /\ last.kp = KeyPair("secp256k1", 1)
    /\ ~Exists(KeyFile(last.name, "ed25519"))
    /\ loadAccountByName(fs, last.name).kp = last.kp

\* C7: a private key file that SaveAccount created has no group or other
\* permission bit, that mode being the one given to the call that creates
\* it, with no call that changes a mode; and the directory is there, made
\* with owner bits only when SaveAccount made it, before the first call
\* on a key file.
C7_PrivateKeyFilesOwnerOnly ==
    /\ \A path \in KeyFiles :
          (fs.files[path].exists /\ fs.files[path].bySave)
              => fs.files[path].mode \subseteq OwnerBits
    /\ \A i \in 1..Len(last.log) :
          /\ last.log[i].op \in {"mkdir", "open", "write"}
          /\ (last.log[i].op = "open" /\ last.log[i].path \in KeyFiles)
                => last.log[i].perm \subseteq OwnerBits
          /\ last.log[i].op \in {"open", "write"}
                => \E j \in 1..(i - 1) : last.log[j].op = "mkdir" /\ last.log[j].ok
    /\ (\E path \in Paths : fs.files[path].exists) => fs.dir.exists
    /\ fs.dir.bySave => fs.dir.exists /\ fs.dir.mode \subseteq OwnerBits

C7_Witness ==
    /\ last.op = "save" /\ last.err.kind = "nil"
    /\ fs.dir.bySave
    /\ LET f == fs.files[KeyFile(last.name, last.kp.Algorithm)]
       IN  f.exists /\ f.bySave /\ f.mode = {"ur"}
                    /\ f.data = Base58Encode(last.kp.Seckey)

\* C10: after any SaveAccount calls, failed ones and second saves of an
\* account and algorithm included, when <name>_<algo> and
\* <name>_<algo>.pub both exist they hold the two halves of one key pair.
C10_KeyFilesHoldOnePair ==
    \A n \in Names, a \in {"ed25519", "secp256k1"} :
        (Exists(KeyFile(n, a)) /\ Exists(PubFile(n, a)))
            => \E kp \in KeyPairs :
                  /\ kp.Algorithm = a
                  /\ fs.files[KeyFile(n, a)].data = Base58Encode(kp.Seckey)
                  /\ fs.files[PubFile(n, a)].data = Base58Encode(kp.Pubkey)

====
